---- MODULE Spec2Model ----
(***************************************************************************)
(* FinArc<T, F> (src/src/lib.rs): a handle that owns its own copy of T and *)
(* shares one Arc<F> (the finalizer) with every handle cloned from it.     *)
(*                                                                         *)
(* A handle is operated by the thread that owns it.  Every access to the   *)
(* shared Arc<F> is one atomic step of its strong count:                   *)
(*   Arc::new         strong = 1                                           *)
(*   Arc::clone       fetch_add(1)                                         *)
(*   Arc::try_unwrap  compare_exchange(1, 0); Ok(F) on success, Err(arc)   *)
(*                    with the count untouched on failure                  *)
(*   drop(Arc)        fetch_sub(1); the thread that takes it from 1 to 0   *)
(*                    destroys F in place, without calling it              *)
(* Steps that touch only the thread's own handle are folded into the       *)
(* atomic step they follow or precede.                                     *)
(***************************************************************************)
EXTENDS Integers, FiniteSets, Sequences, TLC

\* Bounds of the model.
MaxHandles == 3
NumLineages == 2
MaxVal == 1

Handles == 1..MaxHandles
Lineages == 1..NumLineages
Values == 0..MaxVal

VARIABLES
    pc,         \* per handle: where its owner is (see PcStates)
    lin,        \* per handle: the lineage (shared Arc<F>) it belongs to, 0 if free
    data,       \* per handle: FinArc.data
    inner,      \* per handle: FinArc.inner is Some
    cloning,    \* per handle: clone calls past inner.clone(), before data.clone()
    strong,     \* per lineage: the Arc's strong count
    slot,       \* per lineage: what became of the F stored in the Arc
    finCalls,   \* per lineage: number of invocations of the finalizer
    finArg,     \* per lineage: <<v>> once the finalizer was invoked on value v
    unwrapOk,   \* per lineage: number of try_unwrap calls that returned Ok
    unwrapErr,  \* per lineage: some try_unwrap call returned Err
    ret,        \* per handle: <<v>> once try_unwrap returned Ok(v) for it
    lastCmp,    \* <<a, b, eq, cmp>> when the last call made was a comparison
    gone,       \* expect("Finalizer is gone") has failed
    finPanicked \* per lineage: the finalizer panicked when it was invoked

vars == <<pc, lin, data, inner, cloning, strong, slot, finCalls, finArg,
          unwrapOk, unwrapErr, ret, lastCmp, gone, finPanicked>>

\* free: not created yet.  idle: owned, no call in progress.
\* drop_last / drop_release: inside Drop::drop, after Arc::try_unwrap
\*   returned Ok(f) / Err(arc).
\* unwrap_ok / unwrap_err: inside FinArc::try_unwrap, after Arc::try_unwrap.
\* finalized, released, unwrapped: retired by drop (as last, as non-last)
\*   or by a successful try_unwrap.
PcStates == {"free", "idle", "drop_last", "drop_release", "unwrap_ok",
             "unwrap_err", "finalized", "released", "unwrapped"}
Retired == {"finalized", "released", "unwrapped"}
InCall == {"drop_last", "drop_release", "unwrap_ok", "unwrap_err"}

\* A handle is live while it holds its reference to the shared slot: from its
\* creation until Arc::try_unwrap succeeded on it or its Arc was released.
Live(h) == pc[h] \in {"idle", "drop_release", "unwrap_err"}
HandlesOf(l) == {h \in Handles : lin[h] = l}
LiveCount(l) == Cardinality({h \in HandlesOf(l) : Live(h)})
PendingClones(l) == Cardinality({p \in Handles \X (1..MaxHandles) : lin[p[1]] = l /\ p[2] <= cloning[p[1]]})
AllPendingClones == Cardinality({p \in Handles \X (1..MaxHandles) : p[2] <= cloning[p[1]]})
FreeHandles == {h \in Handles : pc[h] = "free"}
FreeLineages == {l \in Lineages : slot[l] = "unalloc"}
Min(S) == CHOOSE x \in S : \A y \in S : x <= y

Init ==
    /\ pc = [h \in Handles |-> "free"]
    /\ lin = [h \in Handles |-> 0]
    /\ data = [h \in Handles |-> 0]
    /\ inner = [h \in Handles |-> FALSE]
    /\ cloning = [h \in Handles |-> 0]
    /\ strong = [l \in Lineages |-> 0]
    /\ slot = [l \in Lineages |-> "unalloc"]
    /\ finCalls = [l \in Lineages |-> 0]
    /\ finArg = [l \in Lineages |-> <<>>]
    /\ unwrapOk = [l \in Lineages |-> 0]
    /\ unwrapErr = [l \in Lineages |-> FALSE]
    /\ ret = [h \in Handles |-> <<>>]
    /\ lastCmp = <<>>
    /\ gone = FALSE
    /\ finPanicked = [l \in Lineages |-> FALSE]


\* ---- the shared Arc<F> ----

\* Mutation of ArcTryUnwrapOk: the check also passes with one other reference.
ArcTryUnwrapOkOffByOne(l) == strong[l] <= 2

\* Arc::try_unwrap succeeds: compare_exchange(1, 0) on the strong count.
ArcTryUnwrapOk(l) == strong[l] = 1

\* Mutation of ArcCloneStrong: the clone does not count.
ArcCloneStrongLost(l) == strong[l]

\* Arc::clone: fetch_add(1) on the strong count.
ArcCloneStrong(l) == strong[l] + 1

\* Mutation of ArcDropStrong: the released reference stays counted.
ArcDropStrongLeak(l) == strong[l]

\* drop(Arc): fetch_sub(1) on the strong count.
ArcDropStrong(l) == strong[l] - 1

\* drop(Arc) destroys the stored F, uncalled, when it took the count from 1.
ArcDropSlot(l) == IF strong[l] = 1 THEN "dropped" ELSE slot[l]

\* ---- FinArc ----

\* FinArc::new(data, finalizer): a fresh Arc holding the finalizer.
New(v) ==
    /\ FreeLineages # {}
    /\ Cardinality(FreeHandles) > AllPendingClones
    /\ LET l == Min(FreeLineages)
           h == Min(FreeHandles)
       IN /\ pc' = [pc EXCEPT ![h] = "idle"]
          /\ lin' = [lin EXCEPT ![h] = l]
          /\ data' = [data EXCEPT ![h] = v]
          /\ inner' = [inner EXCEPT ![h] = TRUE]
          /\ strong' = [strong EXCEPT ![l] = 1]
          /\ slot' = [slot EXCEPT ![l] = "pending"]
    /\ UNCHANGED <<cloning, finCalls, finArg, unwrapOk, unwrapErr, ret, gone, finPanicked>>
    /\ lastCmp' = <<>>

\* Clone::clone, first field: inner: self.inner.clone().  The source handle
\* stays borrowed (shared) until the call returns.
CloneInner(h) ==
    /\ pc[h] = "idle"
    /\ inner[h]
    /\ Cardinality(FreeHandles) > AllPendingClones
    /\ strong' = [strong EXCEPT ![lin[h]] = ArcCloneStrong(lin[h])]
    /\ cloning' = [cloning EXCEPT ![h] = @ + 1]
    /\ UNCHANGED <<pc, lin, data, inner, slot, finCalls, finArg, unwrapOk,
                   unwrapErr, ret, gone, finPanicked>>
    /\ lastCmp' = <<>>

\* Mutation of CloneData: the new handle gets the data of the lineage's first
\* handle, not of the handle cloned.
CloneDataOfFirst(h) ==
    /\ cloning[h] > 0
    /\ LET n == Min(FreeHandles)
       IN /\ pc' = [pc EXCEPT ![n] = "idle"]
          /\ lin' = [lin EXCEPT ![n] = lin[h]]
          /\ data' = [data EXCEPT ![n] = data[Min(HandlesOf(lin[h]))]]
          /\ inner' = [inner EXCEPT ![n] = TRUE]
    /\ cloning' = [cloning EXCEPT ![h] = @ - 1]
    /\ UNCHANGED <<strong, slot, finCalls, finArg, unwrapOk, unwrapErr, ret, gone, finPanicked>>
    /\ lastCmp' = <<>>

\* Clone::clone, second field: data: self.data.clone(); the new handle exists.
CloneData(h) ==
    /\ cloning[h] > 0
    /\ LET n == Min(FreeHandles)
       IN /\ pc' = [pc EXCEPT ![n] = "idle"]
          /\ lin' = [lin EXCEPT ![n] = lin[h]]
          /\ data' = [data EXCEPT ![n] = data[h]]
          /\ inner' = [inner EXCEPT ![n] = TRUE]
    /\ cloning' = [cloning EXCEPT ![h] = @ - 1]
    /\ UNCHANGED <<strong, slot, finCalls, finArg, unwrapOk, unwrapErr, ret, gone, finPanicked>>
    /\ lastCmp' = <<>>

\* An exclusive borrow or a move of the handle: no call in progress on it.
Exclusive(h) == pc[h] = "idle" /\ cloning[h] = 0

\* Mutation of DerefMut: the data is stored once per lineage, as in an Arc<T>.
DerefMutShared(h, v) ==
    /\ Exclusive(h)
    /\ data' = [g \in Handles |-> IF lin[g] = lin[h] THEN v ELSE data[g]]
    /\ UNCHANGED <<pc, lin, inner, cloning, strong, slot, finCalls, finArg,
                   unwrapOk, unwrapErr, ret, gone, finPanicked>>
    /\ lastCmp' = <<>>

\* DerefMut::deref_mut and a write through the reference: *h = v.
DerefMut(h, v) ==
    /\ Exclusive(h)
    /\ data' = [data EXCEPT ![h] = v]
    /\ UNCHANGED <<pc, lin, inner, cloning, strong, slot, finCalls, finArg,
                   unwrapOk, unwrapErr, ret, gone, finPanicked>>
    /\ lastCmp' = <<>>

\* Mutation of FinalizerArg: the finalizer gets the data of the lineage's
\* first handle, as if the data were stored once per lineage.
FinalizerArgOfFirst(h) == data[Min(HandlesOf(lin[h]))]

\* The value the finalizer is invoked on: (f)(&mut self.data).
FinalizerArg(h) == data[h]

\* Drop::drop up to the result of Arc::try_unwrap(self.inner.take().expect(..)).
DropCheck(h) ==
    /\ Exclusive(h)
    /\ IF ~inner[h]
       THEN /\ gone' = TRUE
            /\ pc' = [pc EXCEPT ![h] = "released"]
            /\ UNCHANGED <<inner, strong, slot>>
       ELSE /\ inner' = [inner EXCEPT ![h] = FALSE]
            /\ IF ArcTryUnwrapOk(lin[h])
               THEN /\ strong' = [strong EXCEPT ![lin[h]] = 0]
                    /\ slot' = [slot EXCEPT ![lin[h]] = "moved"]
                    /\ pc' = [pc EXCEPT ![h] = "drop_last"]
               ELSE /\ pc' = [pc EXCEPT ![h] = "drop_release"]
                    /\ UNCHANGED <<strong, slot>>
            /\ UNCHANGED gone
    /\ UNCHANGED <<lin, data, cloning, finCalls, finArg, unwrapOk, unwrapErr,
                   ret, finPanicked>>
    /\ lastCmp' = <<>>

\* Mutation of DropFinalize: a finalizer that panicked is kept and the drop
\* invokes it again.
DropFinalizeRetries(h) ==
    /\ pc[h] = "drop_last"
    /\ finCalls[lin[h]] < MaxHandles
    /\ finCalls' = [finCalls EXCEPT ![lin[h]] = @ + 1]
    /\ finArg' = [finArg EXCEPT ![lin[h]] = <<FinalizerArg(h)>>]
    /\ \E panics \in BOOLEAN :
          /\ finPanicked' = [finPanicked EXCEPT ![lin[h]] = panics]
          /\ pc' = [pc EXCEPT ![h] = IF panics THEN "drop_last" ELSE "finalized"]
    /\ UNCHANGED <<lin, data, inner, cloning, strong, slot, unwrapOk, unwrapErr,
                   ret, gone>>
    /\ lastCmp' = <<>>

\* Drop::drop, Ok(f): (f)(&mut self.data).  The finalizer returns or panics;
\* either way drop is left and the handle's fields are gone.
DropFinalize(h) ==
    /\ pc[h] = "drop_last"
    /\ finCalls' = [finCalls EXCEPT ![lin[h]] = @ + 1]
    /\ finArg' = [finArg EXCEPT ![lin[h]] = <<FinalizerArg(h)>>]
    /\ \E panics \in BOOLEAN : finPanicked' = [finPanicked EXCEPT ![lin[h]] = panics]
    /\ pc' = [pc EXCEPT ![h] = "finalized"]
    /\ UNCHANGED <<lin, data, inner, cloning, strong, slot, unwrapOk, unwrapErr,
                   ret, gone>>
    /\ lastCmp' = <<>>

\* Mutation of DropRelease: the release waits until no other handle of the
\* lineage is inside a call, as under a lock around the shared slot.
DropReleaseWaits(h) ==
    /\ pc[h] = "drop_release"
    /\ \A g \in HandlesOf(lin[h]) \ {h} : pc[g] \notin InCall
    /\ strong' = [strong EXCEPT ![lin[h]] = ArcDropStrong(lin[h])]
    /\ slot' = [slot EXCEPT ![lin[h]] = ArcDropSlot(lin[h])]
    /\ pc' = [pc EXCEPT ![h] = "released"]
    /\ UNCHANGED <<lin, data, inner, cloning, finCalls, finArg, unwrapOk,
                   unwrapErr, ret, gone, finPanicked>>
    /\ lastCmp' = <<>>

\* Drop::drop, Err(arc): the if-let does not match and the Arc handed back is
\* dropped.
DropRelease(h) ==
    /\ pc[h] = "drop_release"
    /\ strong' = [strong EXCEPT ![lin[h]] = ArcDropStrong(lin[h])]
    /\ slot' = [slot EXCEPT ![lin[h]] = ArcDropSlot(lin[h])]
    /\ pc' = [pc EXCEPT ![h] = "released"]
    /\ UNCHANGED <<lin, data, inner, cloning, finCalls, finArg, unwrapOk,
                   unwrapErr, ret, gone, finPanicked>>
    /\ lastCmp' = <<>>

\* FinArc::try_unwrap up to the result of
\* Arc::try_unwrap(this.inner.take().expect(..)).
TryUnwrapCheck(h) ==
    /\ Exclusive(h)
    /\ IF ~inner[h]
       THEN /\ gone' = TRUE
            /\ pc' = [pc EXCEPT ![h] = "released"]
            /\ UNCHANGED <<inner, strong, slot>>
       ELSE /\ inner' = [inner EXCEPT ![h] = FALSE]
            /\ IF ArcTryUnwrapOk(lin[h])
               THEN /\ strong' = [strong EXCEPT ![lin[h]] = 0]
                    /\ slot' = [slot EXCEPT ![lin[h]] = "moved"]
                    /\ pc' = [pc EXCEPT ![h] = "unwrap_ok"]
               ELSE /\ pc' = [pc EXCEPT ![h] = "unwrap_err"]
                    /\ UNCHANGED <<strong, slot>>
            /\ UNCHANGED gone
    /\ UNCHANGED <<lin, data, cloning, finCalls, finArg, unwrapOk, unwrapErr,
                   ret, finPanicked>>
    /\ lastCmp' = <<>>

\* Mutation of TryUnwrapOk: the finalizer taken out of the Arc is called.
TryUnwrapOkRunsFinalizer(h) ==
    /\ pc[h] = "unwrap_ok"
    /\ ret' = [ret EXCEPT ![h] = <<data[h]>>]
    /\ unwrapOk' = [unwrapOk EXCEPT ![lin[h]] = @ + 1]
    /\ finCalls' = [finCalls EXCEPT ![lin[h]] = @ + 1]
    /\ finArg' = [finArg EXCEPT ![lin[h]] = <<data[h]>>]
    /\ pc' = [pc EXCEPT ![h] = "unwrapped"]
    /\ UNCHANGED <<lin, data, inner, cloning, strong, slot, unwrapErr, gone, finPanicked>>
    /\ lastCmp' = <<>>

\* FinArc::try_unwrap, Ok(_): the finalizer is discarded, the data is read
\* out and the handle is forgotten, so Drop::drop does not run on it.
TryUnwrapOk(h) ==
    /\ pc[h] = "unwrap_ok"
    /\ ret' = [ret EXCEPT ![h] = <<data[h]>>]
    /\ unwrapOk' = [unwrapOk EXCEPT ![lin[h]] = @ + 1]
    /\ pc' = [pc EXCEPT ![h] = "unwrapped"]
    /\ UNCHANGED <<lin, data, inner, cloning, strong, slot, finCalls, finArg,
                   unwrapErr, gone, finPanicked>>
    /\ lastCmp' = <<>>

\* Mutation of TryUnwrapErr: the Arc handed back is dropped, not put back.
TryUnwrapErrDropsArc(h) ==
    /\ pc[h] = "unwrap_err"
    /\ strong' = [strong EXCEPT ![lin[h]] = @ - 1]
    /\ unwrapErr' = [unwrapErr EXCEPT ![lin[h]] = TRUE]
    /\ pc' = [pc EXCEPT ![h] = "idle"]
    /\ UNCHANGED <<lin, data, inner, cloning, slot, finCalls, finArg, unwrapOk,
                   ret, gone, finPanicked>>
    /\ lastCmp' = <<>>

\* Mutation of TryUnwrapErr: a clone of the Arc is put back and the Arc
\* handed back is forgotten, so one reference is counted twice.
TryUnwrapErrLeaksArc(h) ==
    /\ pc[h] = "unwrap_err"
    /\ inner' = [inner EXCEPT ![h] = TRUE]
    /\ strong' = [strong EXCEPT ![lin[h]] = @ + 1]
    /\ unwrapErr' = [unwrapErr EXCEPT ![lin[h]] = TRUE]
    /\ pc' = [pc EXCEPT ![h] = "idle"]
    /\ UNCHANGED <<lin, data, cloning, slot, finCalls, finArg, unwrapOk, ret, gone, finPanicked>>
    /\ lastCmp' = <<>>

\* Mutation of TryUnwrapErr: the handle is returned without its Arc put back.
TryUnwrapErrKeepsNone(h) ==
    /\ pc[h] = "unwrap_err"
    /\ unwrapErr' = [unwrapErr EXCEPT ![lin[h]] = TRUE]
    /\ pc' = [pc EXCEPT ![h] = "idle"]
    /\ UNCHANGED <<lin, data, inner, cloning, strong, slot, finCalls, finArg,
                   unwrapOk, ret, gone, finPanicked>>
    /\ lastCmp' = <<>>

\* FinArc::try_unwrap, Err(arc): this.inner = Some(arc); Err(this).
TryUnwrapErr(h) ==
    /\ pc[h] = "unwrap_err"
    /\ inner' = [inner EXCEPT ![h] = TRUE]
    /\ unwrapErr' = [unwrapErr EXCEPT ![lin[h]] = TRUE]
    /\ pc' = [pc EXCEPT ![h] = "idle"]
    /\ UNCHANGED <<lin, data, cloning, strong, slot, finCalls, finArg, unwrapOk,
                   ret, gone, finPanicked>>
    /\ lastCmp' = <<>>

\* ---- comparisons: they read the two values through Deref ----

\* Mutation of FinArcEq: handles are equal only if they also share the slot.
FinArcEqSameSlot(a, b) == data[a] = data[b] /\ lin[a] = lin[b]

\* PartialEq::eq: (**self).eq(&**other).
FinArcEq(a, b) == data[a] = data[b]

\* PartialOrd::partial_cmp and Ord::cmp: the ordering of the two values.
FinArcCmp(a, b) ==
    IF data[a] < data[b] THEN "Less"
    ELSE IF data[a] > data[b] THEN "Greater"
    ELSE "Equal"

\* A shared borrow of the handle: no exclusive call in progress on it.
Shared(h) == pc[h] = "idle"

Compare(a, b) ==
    /\ Shared(a) /\ Shared(b)
    /\ lastCmp' = <<a, b, FinArcEq(a, b), FinArcCmp(a, b)>>
    /\ UNCHANGED <<pc, lin, data, inner, cloning, strong, slot, finCalls, finArg,
                   unwrapOk, unwrapErr, ret, gone, finPanicked>>

\* ---- specifications ----

\* Any number of threads, each operating the handles it owns.  A comparison
\* reads only the data of the two handles it borrows, which no other thread
\* can write meanwhile, and leaves every variable of the program as it was:
\* it is a step of the one-thread specification below.
Next ==
    \/ \E v \in Values : New(v)
    \/ \E h \in Handles : CloneInner(h)
    \/ \E h \in Handles : CloneData(h)
    \/ \E h \in Handles, v \in Values : DerefMut(h, v)
    \/ \E h \in Handles : DropCheck(h)
    \/ \E h \in Handles : DropFinalize(h)
    \/ \E h \in Handles : DropRelease(h)
    \/ \E h \in Handles : TryUnwrapCheck(h)
    \/ \E h \in Handles : TryUnwrapOk(h)
    \/ \E h \in Handles : TryUnwrapErr(h)

Spec == Init /\ [][Next]_vars

\* No call is in progress on any handle.
Quiescent == \A h \in Handles : pc[h] \notin InCall /\ cloning[h] = 0

\* One thread: a call starts only when no other call is in progress.
NextSeq ==
    \/ Quiescent /\ \E v \in Values : New(v)
    \/ Quiescent /\ \E h \in Handles : CloneInner(h)
    \/ \E h \in Handles : CloneData(h)
    \/ Quiescent /\ \E h \in Handles, v \in Values : DerefMut(h, v)
    \/ Quiescent /\ \E h \in Handles : DropCheck(h)
    \/ \E h \in Handles : DropFinalize(h)
    \/ \E h \in Handles : DropRelease(h)
    \/ Quiescent /\ \E h \in Handles : TryUnwrapCheck(h)
    \/ \E h \in Handles : TryUnwrapOk(h)
    \/ \E h \in Handles : TryUnwrapErr(h)
    \/ Quiescent /\ \E a, b \in Handles : Compare(a, b)

SpecSeq == Init /\ [][NextSeq]_vars

TypeOK ==
    /\ pc \in [Handles -> PcStates]
    /\ lin \in [Handles -> 0..NumLineages]
    /\ data \in [Handles -> Values]
    /\ inner \in [Handles -> BOOLEAN]
    /\ cloning \in [Handles -> 0..MaxHandles]
    /\ strong \in [Lineages -> 0..MaxHandles]
    /\ slot \in [Lineages -> {"unalloc", "pending", "moved", "dropped"}]
    /\ finCalls \in [Lineages -> 0..MaxHandles]
    /\ finArg \in [Lineages -> {<<>>} \cup {<<v>> : v \in Values}]
    /\ unwrapOk \in [Lineages -> 0..MaxHandles]
    /\ unwrapErr \in [Lineages -> BOOLEAN]
    /\ ret \in [Handles -> {<<>>} \cup {<<v>> : v \in Values}]
    /\ gone \in BOOLEAN
    /\ finPanicked \in [Lineages -> BOOLEAN]

\* ---- properties ----

Created(l) == slot[l] # "unalloc"
AllRetired(l) ==
    /\ Created(l)
    /\ \A h \in HandlesOf(l) : pc[h] \in Retired /\ cloning[h] = 0
\* try_unwrap has been called on a handle of the lineage.
UnwrapCalled(l) ==
    \/ unwrapErr[l]
    \/ unwrapOk[l] > 0
    \/ \E h \in HandlesOf(l) : pc[h] \in {"unwrap_ok", "unwrap_err"}

\* C1: under any interleaving of clone, deref_mut, drop and try_unwrap, the
\* finalizer of a lineage has been invoked at most once, and at most one
\* handle holds it or has run it.
C1_FinalizerAtMostOnce ==
    \A l \in Lineages :
        /\ finCalls[l] <= 1
        /\ Cardinality({h \in HandlesOf(l) : pc[h] \in {"drop_last", "finalized"}}) <= 1

C1_Witness ==
    \E l \in Lineages :
        /\ finCalls[l] = 1
        /\ unwrapErr[l]
        /\ Cardinality(HandlesOf(l)) >= 2
        /\ \E h \in HandlesOf(l) : data[h] # data[Min(HandlesOf(l))]

\* C2: when the handles of a lineage are dropped by racing threads, exactly
\* one of them runs the finalizer: once every handle is retired and no
\* try_unwrap succeeded, the finalizer has run exactly once.
C2_RacingDropsRunFinalizerOnce ==
    \A l \in Lineages :
        (AllRetired(l) /\ unwrapOk[l] = 0) => finCalls[l] = 1

\* C3: with the calls made one after another and no try_unwrap on the
\* lineage, the finalizer has not run while a handle is left and has run
\* exactly once when the last handle has been dropped.
C3_SequentialDropsRunFinalizerOnce ==
    \A l \in Lineages :
        (Created(l) /\ ~UnwrapCalled(l)) =>
            /\ LiveCount(l) > 0 => finCalls[l] = 0
            /\ (Quiescent /\ LiveCount(l) = 0) => finCalls[l] = 1

C3_Witness ==
    \E l \in Lineages :
        /\ ~UnwrapCalled(l)
        /\ AllRetired(l)
        /\ Cardinality(HandlesOf(l)) = 3
        /\ finCalls[l] = 1

\* C4: when the finalizer has been taken to run or has run, every other
\* handle of the lineage has been dropped and no clone is being made.
C4_FinalizerOnlyWhenOthersDropped ==
    \A h \in Handles :
        pc[h] \in {"drop_last", "finalized"} =>
            /\ \A g \in HandlesOf(lin[h]) \ {h} : pc[g] = "released"
            /\ \A g \in HandlesOf(lin[h]) : cloning[g] = 0

C4_Witness ==
    \E h \in Handles :
        /\ pc[h] = "drop_last"
        /\ h # Min(HandlesOf(lin[h]))
        /\ Cardinality(HandlesOf(lin[h])) >= 2

\* C5: try_unwrap on the only live handle of a lineage takes the Ok branch and
\* returns the handle's current value; the live-count is then 0, the finalizer
\* is not invoked by the call nor later, and the handle stays retired without
\* its destructor running.
C5_UnwrapOfLastHandle ==
    [][\A h \in Handles :
        /\ (Exclusive(h) /\ pc'[h] \in {"unwrap_ok", "unwrap_err"} /\ LiveCount(lin[h]) = 1) =>
              /\ pc'[h] = "unwrap_ok"
              /\ strong'[lin[h]] = 0
              /\ finCalls' = finCalls
        /\ (pc[h] = "unwrap_ok" /\ pc'[h] # "unwrap_ok") =>
              /\ pc'[h] = "unwrapped"
              /\ ret'[h] = <<data[h]>>
              /\ finCalls' = finCalls
        /\ pc[h] = "unwrapped" => pc'[h] = "unwrapped"
        /\ pc'[h] \in {"unwrap_ok", "unwrapped"} =>
              /\ finCalls'[lin'[h]] = 0
              /\ LiveCount(lin[h])' = 0
              /\ \A g \in HandlesOf(lin[h])' : pc'[g] # "drop_last"
    ]_vars

C5_Witness ==
    \E h \in Handles :
        /\ pc[h] = "unwrapped"
        /\ ret[h] = <<1>>
        /\ \E g \in HandlesOf(lin[h]) : pc[g] = "released" /\ data[g] = 0

\* C6: try_unwrap on a handle while another handle of the lineage is live
\* takes the Err branch and returns the handle with its value, its lineage
\* and its slot reference; the strong count and the live-count are as before
\* the call, the finalizer has not run and is still in the slot, and it
\* cannot run while the returned handle is held.
C6_UnwrapWithOthersLive ==
    [][\A h \in Handles :
        /\ (Exclusive(h) /\ pc'[h] \in {"unwrap_ok", "unwrap_err"} /\ LiveCount(lin[h]) >= 2) =>
              /\ pc'[h] = "unwrap_err"
              /\ UNCHANGED <<lin, data, strong, slot, finCalls>>
              /\ LiveCount(lin[h])' = LiveCount(lin[h])
              /\ finCalls[lin[h]] = 0
              /\ slot[lin[h]] = "pending"
        /\ (pc[h] = "unwrap_err" /\ pc'[h] # "unwrap_err") =>
              /\ pc'[h] = "idle"
              /\ inner'[h]
              /\ UNCHANGED <<lin, data, strong, slot, finCalls>>
              /\ LiveCount(lin[h])' = LiveCount(lin[h])
              /\ finCalls[lin[h]] = 0
              /\ slot[lin[h]] = "pending"
        /\ (pc'[h] \in {"idle", "unwrap_err"} /\ unwrapErr'[lin'[h]]) =>
              /\ finCalls'[lin'[h]] = 0
              /\ slot'[lin'[h]] = "pending"
    ]_vars

C6_Witness ==
    \E h \in Handles :
        /\ pc[h] = "idle"
        /\ inner[h]
        /\ unwrapErr[lin[h]]
        /\ data[h] = 1
        /\ LiveCount(lin[h]) >= 2

\* C7: with the calls made one after another, after a try_unwrap of the
\* lineage has failed the finalizer has not run while a handle is left, and
\* has run exactly once when the returned handle and the other handles have
\* been dropped.
C7_DropAfterFailedUnwrap ==
    \A l \in Lineages :
        (unwrapErr[l] /\ unwrapOk[l] = 0) =>
            /\ LiveCount(l) > 0 => finCalls[l] = 0
            /\ (Quiescent /\ LiveCount(l) = 0) => finCalls[l] = 1

C7_Witness ==
    \E l \in Lineages :
        /\ unwrapErr[l]
        /\ AllRetired(l)
        /\ Cardinality(HandlesOf(l)) = 2
        /\ finCalls[l] = 1

\* C8: the finalizer is invoked on the current value of the handle whose
\* drop ran it, writes through deref_mut included.
C8_FinalizerSeesLastHandle ==
    \A h \in Handles :
        pc[h] = "finalized" => finArg[lin[h]] = <<data[h]>>

C8_Witness ==
    \E h \in Handles :
        /\ pc[h] = "finalized"
        /\ finArg[lin[h]] = <<1>>
        /\ \E g \in HandlesOf(lin[h]) : g < h /\ data[g] = 0

\* C9: a write through deref_mut changes the value of that one handle and
\* leaves every other handle's value, the strong counts, the live-counts and
\* the finalizers as they were.
C9_DerefMutFrame ==
    [][\A h \in Handles :
        (pc' = pc /\ data'[h] # data[h]) =>
            /\ \A g \in Handles \ {h} : data'[g] = data[g]
            /\ \A l \in Lineages : LiveCount(l)' = LiveCount(l)
            /\ UNCHANGED <<lin, inner, cloning, strong, slot, finCalls, finArg>>
    ]_vars

C9_Witness ==
    \E h, g \in Handles :
        /\ lin[h] = lin[g]
        /\ pc[h] = "idle" /\ pc[g] = "idle"
        /\ data[h] # data[g]

\* C10: eq is true exactly when the two handles' current values are equal
\* and partial_cmp / cmp give the ordering of the two values, whatever the
\* lineages and counts; a comparison changes no count and runs no finalizer.
C10_CompareByValue ==
    [][lastCmp' # <<>> =>
        LET a == lastCmp'[1]
            b == lastCmp'[2]
        IN /\ lastCmp'[3] = (data[a] = data[b])
           /\ lastCmp'[4] = "Less" <=> data[a] < data[b]
           /\ lastCmp'[4] = "Equal" <=> data[a] = data[b]
           /\ lastCmp'[4] = "Greater" <=> data[a] > data[b]
           /\ UNCHANGED <<pc, lin, data, inner, cloning, strong, slot, finCalls,
                          finArg, unwrapOk, unwrapErr, ret, gone, finPanicked>>
    ]_vars

C10_Witness ==
    /\ lastCmp # <<>>
    /\ lin[lastCmp[1]] # lin[lastCmp[2]]
    /\ strong[lin[lastCmp[1]]] # strong[lin[lastCmp[2]]]
    /\ lastCmp[3] = TRUE
    /\ lastCmp[4] = "Equal"

\* C11: in one lineage at most one "last" outcome ever occurs: the successful
\* try_unwrap calls and the drops that obtained the finalizer, finished or in
\* progress, number at most one together.
C11_AtMostOneLast ==
    \A l \in Lineages :
        /\ unwrapOk[l] <= 1
        /\ ~(unwrapOk[l] > 0 /\ finCalls[l] > 0)
        /\ Cardinality({h \in HandlesOf(l) :
                pc[h] \in {"drop_last", "finalized", "unwrap_ok", "unwrapped"}}) <= 1

C11_Witness ==
    \E l \in Lineages :
        /\ unwrapOk[l] = 1
        /\ unwrapErr[l]
        /\ \E g \in HandlesOf(l) : pc[g] = "released"

\* C12: the strong count of a lineage is the number of its live handles plus
\* the clones being made; with no call in progress on the lineage it is the
\* number of handles created and not yet dropped or unwrapped, and it is 1
\* right after new.
LineageQuiescent(l) == \A h \in HandlesOf(l) : pc[h] \notin InCall /\ cloning[h] = 0
C12_StrongIsLiveCount ==
    \A l \in Lineages :
        Created(l) =>
            /\ strong[l] = LiveCount(l) + PendingClones(l)
            /\ LineageQuiescent(l) =>
                  strong[l] = Cardinality({h \in HandlesOf(l) : pc[h] = "idle"})
            /\ (Cardinality(HandlesOf(l)) = 1 /\ LineageQuiescent(l)
                    /\ \A h \in HandlesOf(l) : pc[h] = "idle") => strong[l] = 1

C12_Witness ==
    \E l \in Lineages :
        /\ LineageQuiescent(l)
        /\ strong[l] = 2
        /\ Cardinality(HandlesOf(l)) = 3
        /\ \E g \in HandlesOf(l) : pc[g] = "released"

\* C13 as stated: the fallback of a failed try_unwrap shrinks the lineage, the
\* live-count after it being one less than before.
C13_FailedUnwrapShrinks ==
    [][\A h \in Handles :
        (pc[h] = "unwrap_err" /\ pc'[h] = "idle") =>
            LiveCount(lin[h])' = LiveCount(lin[h]) - 1
    ]_vars

\* C13, amended: a failed try_unwrap does not shrink the lineage: neither the
\* failed check nor the fallback that hands the handle back changes the
\* live-count or the strong count, and the handle is still live.
C13_FailedUnwrapKeepsCount ==
    [][\A h \in Handles :
        (\/ Exclusive(h) /\ pc'[h] = "unwrap_err"
         \/ pc[h] = "unwrap_err" /\ pc'[h] = "idle") =>
            /\ LiveCount(lin[h])' = LiveCount(lin[h])
            /\ strong'[lin[h]] = strong[lin[h]]
            /\ Live(h)'
    ]_vars

C13_Witness ==
    \E h \in Handles :
        /\ pc[h] = "idle"
        /\ unwrapErr[lin[h]]
        /\ strong[lin[h]] = 3
        /\ LiveCount(lin[h]) = 3

\* C14: expect("Finalizer is gone") never fails: a handle on which a call can
\* start has its slot reference, and the reference is absent only in a
\* handle that is inside drop or try_unwrap, or retired, which no other call
\* can reach.
C14_FinalizerNeverGone ==
    /\ ~gone
    /\ \A h \in Handles :
        /\ pc[h] = "idle" => inner[h]
        /\ cloning[h] > 0 => pc[h] = "idle" /\ inner[h]
        /\ pc[h] \in InCall => ~inner[h] /\ cloning[h] = 0
        /\ pc[h] \in Retired => ~inner[h] /\ cloning[h] = 0

C14_Witness ==
    \E h, g \in Handles :
        /\ lin[h] = lin[g]
        /\ pc[h] = "unwrap_err" /\ ~inner[h]
        /\ pc[g] = "drop_release" /\ ~inner[g]
        /\ unwrapErr[lin[h]]

\* C15: clone counts one more reference on the lineage's slot and then makes
\* one new handle of the source's lineage holding the source's value, which
\* has not changed since the call began; the live-count grows by exactly one
\* and no other handle's value changes.
C15_CloneCopiesValue ==
    [][/\ \A h \in Handles :
            /\ cloning'[h] = cloning[h] + 1 =>
                  /\ strong'[lin[h]] = strong[lin[h]] + 1
                  /\ UNCHANGED <<pc, lin, data>>
            /\ cloning[h] > 0 => data'[h] = data[h] /\ pc'[h] = "idle"
       /\ \A n \in Handles :
            (pc[n] = "free" /\ pc'[n] = "idle" /\ Created(lin'[n])) =>
                \E h \in Handles \ {n} :
                    /\ cloning'[h] = cloning[h] - 1
                    /\ lin'[n] = lin[h]
                    /\ data'[n] = data[h]
                    /\ \A g \in Handles \ {n} : data'[g] = data[g] /\ lin'[g] = lin[g]
                    /\ LiveCount(lin[h])' = LiveCount(lin[h]) + 1
                    /\ \A l \in Lineages \ {lin[h]} : LiveCount(l)' = LiveCount(l)
                    /\ strong' = strong
    ]_vars

C15_Witness ==
    \E n, h \in Handles :
        /\ lin[n] = lin[h]
        /\ Min(HandlesOf(lin[h])) < h /\ h < n
        /\ pc[n] = "idle" /\ pc[h] = "idle"
        /\ data[n] = 1 /\ data[h] = 1
        /\ data[Min(HandlesOf(lin[h]))] = 0
        /\ strong[lin[h]] = 3

\* C16: a finalizer that panics in the last drop is not invoked again: when
\* it is invoked it has already been moved out of the slot and the strong
\* count is already 0, and after the panic every handle of the lineage is
\* retired and the number of invocations stays 1.
C16_NoRetryAfterPanic ==
    [][/\ \A h \in Handles :
            pc'[h] = "drop_last" =>
                /\ slot'[lin'[h]] = "moved"
                /\ strong'[lin'[h]] = 0
                /\ finCalls'[lin'[h]] = 0
       /\ \A l \in Lineages :
            /\ finPanicked'[l] =>
                  /\ finCalls'[l] = 1
                  /\ slot'[l] = "moved"
                  /\ strong'[l] = 0
                  /\ \A h \in Handles : lin'[h] = l => pc'[h] \in Retired /\ cloning'[h] = 0
            /\ finPanicked[l] => finPanicked'[l] /\ finCalls'[l] = finCalls[l]
    ]_vars

C16_Witness ==
    \E l \in Lineages :
        /\ finPanicked[l]
        /\ finCalls[l] = 1
        /\ unwrapErr[l]
        /\ Cardinality(HandlesOf(l)) = 3

\* C17: no call waits for another thread: drop and try_unwrap can start on any
\* handle no call is in progress on, clone on any idle handle (while the
\* model has a handle left for it), and the one step that is left of a call
\* in progress can always be taken and ends the call, whatever the state of
\* the other handles (for drop as last: with a finalizer that returns).
C17_NoOperationBlocks ==
    \A h \in Handles :
        /\ Exclusive(h) =>
              /\ ENABLED (DropCheck(h) /\ pc'[h] \in {"drop_last", "drop_release"})
              /\ ENABLED (TryUnwrapCheck(h) /\ pc'[h] \in {"unwrap_ok", "unwrap_err"})
        /\ (pc[h] = "idle" /\ Cardinality(FreeHandles) > AllPendingClones) =>
              ENABLED CloneInner(h)
        /\ cloning[h] > 0 => ENABLED (CloneData(h) /\ cloning'[h] = cloning[h] - 1)
        /\ pc[h] = "drop_last" =>
              ENABLED (DropFinalize(h) /\ ~finPanicked'[lin[h]] /\ pc'[h] \in Retired)
        /\ pc[h] = "drop_release" => ENABLED (DropRelease(h) /\ pc'[h] \in Retired)
        /\ pc[h] = "unwrap_ok" => ENABLED (TryUnwrapOk(h) /\ pc'[h] \in Retired)
        /\ pc[h] = "unwrap_err" => ENABLED (TryUnwrapErr(h) /\ pc'[h] = "idle")

C17_Witness ==
    \E h, g, k \in Handles :
        /\ h # g
        /\ lin[h] = lin[g] /\ lin[g] = lin[k]
        /\ pc[h] = "drop_release"
        /\ pc[g] = "drop_release"
        /\ pc[k] = "unwrap_err"

====
